---- MODULE Spec2Model ----
(***************************************************************************)
(* Model of cortex-m-stack (src/src/lib.rs): the stack bounds, the usage   *)
(* accounting, the paint loop and the linear and binary scans, running on  *)
(* a single descending full stack that the foreground program and the     *)
(* interrupt service routines share.                                       *)
(*                                                                         *)
(* Addresses are byte addresses of 32-bit words.  A 32-bit word is kept as *)
(* the pair <<high half, low half>> of its 16-bit halves.                  *)
(***************************************************************************)
EXTENDS Integers, Sequences, FiniteSets, TLC

\* ------------------------------------------------------------------ bounds
\* Number of 32-bit words the linker reserves for the stack.
StackWords == 4
\* Number of words of RAM modelled below the stack (reached on overflow).
BelowWords == 1
\* Largest number of words one interrupt service routine pushes.
MaxIsrWords == 2

\* --------------------------------------------------- constants of the code
\* pub const STACK_PAINT_VALUE: u32 = 0xCCCC_CCCC
STACK_PAINT_VALUE == <<52428, 52428>>
\* A word that is not the paint value (0xDEADBEEF).
DEADBEEF == <<57005, 48879>>
\* The 32-bit words a store may write.
Words == {STACK_PAINT_VALUE, DEADBEEF}

\* static mut _stack_end: the lowest address of the stack (0x20000000).
stack_end == 536870912
\* static mut _stack_start: the highest address, the stack pointer at reset.
stack_start == stack_end + 4 * StackWords
\* Lowest modelled RAM address.
LowAddr == stack_end - 4 * BelowWords
\* The word addresses of the modelled RAM.
Addrs == {LowAddr + 4 * i : i \in 0 .. (BelowWords + StackWords - 1)}

VARIABLES
    mem,     \* RAM: word address -> 32-bit word
    sp,      \* the architectural stack pointer (current_stack_ptr)
    pc,      \* "idle", "paint" (inside repaint_stack), "scan" (inside stack_painted)
    r0,      \* the address register of the paint loop
    ptr,     \* the address register of the scan loop
    masked,  \* the running call is bracketed by a critical section
    last,    \* the call that returned last, "none" once the stack changed after it
    res,     \* the value that call returned
    prev,    \* the uninterrupted call that returned right before the current one began
    mem0,    \* RAM at the entry of the current (or last) call
    dirty,   \* an ISR ran during the current (or last) call
    trace,   \* the addresses the current (or last) call stored to or loaded from
    hw,      \* history since the last uninterrupted paint, or NoPaint
    lost     \* the stack words an ISR left unpainted behind the cursor of the
             \* current (or last) paint

vars == <<mem, sp, pc, r0, ptr, masked, last, res, prev, mem0, dirty, trace, hw, lost>>

\* No uninterrupted paint has happened, or an out-of-order write followed it.
NoPaint == [low |-> 0, hazard |-> TRUE, valid |-> FALSE, poked |-> FALSE]

\* An uninterrupted paint has been followed by out-of-order writes and by
\* nothing else.
PaintedThenPoked == [low |-> 0, hazard |-> TRUE, valid |-> FALSE, poked |-> TRUE]

Min(a, b) == IF a <= b THEN a ELSE b
Max(a, b) == IF a >= b THEN a ELSE b

\* ------------------------------------------------------- usage accounting
\* u32::saturating_sub
saturating_sub(a, b) == IF a >= b THEN a - b ELSE 0

\* stack_size(): stack().start.byte_offset_from_unsigned(stack().end) as u32
stack_size == stack_start - stack_end

\* An in-use count measured from the wrong end of the stack.
current_stack_in_use_from_end(s) == s - stack_end

\* current_stack_in_use(): stack().start.byte_offset_from_unsigned(sp) as u32
current_stack_in_use(s) == stack_start - s

\* A free count with the operands of the subtraction swapped.
current_stack_free_swapped(s) == saturating_sub(current_stack_in_use(s), stack_size)

\* current_stack_free(): stack_size().saturating_sub(current_stack_in_use())
current_stack_free(s) == saturating_sub(stack_size, current_stack_in_use(s))

\* ------------------------------------------------------------ binary scan
\* The slice of stack_painted_binary: len words starting at stack().end.
SliceWord(m, i) == m[stack_end + 4 * i]

\* The loop of core's binary_search_by (the base/size form of the toolchains
\* that provide byte_offset_from_unsigned) under partition_point's comparator:
\* a word equal to the paint value compares Less, any other Greater.
RECURSIVE binary_search_loop(_, _, _, _)
binary_search_loop(m, base, size, probes) ==
    IF size > 1
    THEN LET half == size \div 2
             mid  == base + half
         IN  binary_search_loop(m,
                 IF SliceWord(m, mid) = STACK_PAINT_VALUE THEN mid ELSE base,
                 size - half,
                 Append(probes, stack_end + 4 * mid))
    ELSE [base |-> base, probes |-> probes]

\* A partition point that drops the last comparison of the search.
partition_point_nolast(m, len) ==
    IF len = 0
    THEN [index |-> 0, probes |-> <<>>]
    ELSE LET r == binary_search_loop(m, 0, len, <<>>)
         IN  [index |-> r.base, probes |-> r.probes]

\* A partition point whose last comparison is inverted.
partition_point_inverted(m, len) ==
    IF len = 0
    THEN [index |-> 0, probes |-> <<>>]
    ELSE LET r == binary_search_loop(m, 0, len, <<>>)
         IN  [index  |-> r.base +
                         (IF SliceWord(m, r.base) = STACK_PAINT_VALUE THEN 0 ELSE 1),
              probes |-> Append(r.probes, stack_end + 4 * r.base)]

\* slice.partition_point(|&word| word == STACK_PAINT_VALUE): the index and
\* the addresses probed.
partition_point(m, len) ==
    IF len = 0
    THEN [index |-> 0, probes |-> <<>>]
    ELSE LET r == binary_search_loop(m, 0, len, <<>>)
         IN  [index  |-> r.base +
                         (IF SliceWord(m, r.base) = STACK_PAINT_VALUE THEN 1 ELSE 0),
              probes |-> Append(r.probes, stack_end + 4 * r.base)]

\* The partition point by the left/right bisection of the older
\* core::slice::binary_search_by: the index.
RECURSIVE bisect(_, _, _)
bisect(m, left, right) ==
    IF left < right
    THEN LET mid == left + (right - left) \div 2
         IN  IF SliceWord(m, mid) = STACK_PAINT_VALUE
             THEN bisect(m, mid + 1, right)
             ELSE bisect(m, left, mid)
    ELSE left

\* A binary scan over the whole stack instead of the free part of it.
stack_painted_binary_whole(m, s) ==
    partition_point(m, stack_size \div 4).index * 4

\* A binary scan that returns the index, not the index times size_of::<u32>().
stack_painted_binary_index(m, s) ==
    partition_point(m, current_stack_free(s) \div 4).index

\* stack_painted_binary() at stack pointer s over RAM m.
stack_painted_binary(m, s) ==
    partition_point(m, current_stack_free(s) \div 4).index * 4

\* The loads of a binary scan whose slice is the whole stack.
BinaryProbes_whole(m, s) == partition_point(m, stack_size \div 4).probes

\* The addresses stack_painted_binary() loads from at stack pointer s over RAM m.
BinaryProbes(m, s) == partition_point(m, current_stack_free(s) \div 4).probes

\* ------------------------------------------------------------------- Init
\* Reset: RAM holds arbitrary words, the stack is empty.
Init ==
    /\ mem \in [Addrs -> Words]
    /\ sp = stack_start
    /\ pc = "idle"
    /\ r0 = stack_end
    /\ ptr = stack_end
    /\ masked = FALSE
    /\ last = "none"
    /\ res = 0
    /\ prev = "none"
    /\ mem0 = mem
    /\ dirty = FALSE
    /\ trace = <<>>
    /\ hw = NoPaint
    /\ lost = {}

\* --------------------------------------------------- the running program
\* What every change of the stack by the program does to the bookkeeping of
\* the last call.
Forget ==
    /\ last' = "none"
    /\ res' = 0
    /\ prev' = "none"
    /\ mem0' = mem'
    /\ dirty' = FALSE
    /\ trace' = <<>>
    /\ lost' = {}

\* The program pushes one word: the stack grows downward by one word.
Push(v) ==
    /\ pc = "idle"
    /\ sp - 4 >= LowAddr
    /\ sp' = sp - 4
    /\ mem' = [mem EXCEPT ![sp - 4] = v]
    /\ hw' = IF hw.valid
             THEN [hw EXCEPT !.low = Min(hw.low, sp - 4),
                             !.hazard = hw.hazard \/ v = STACK_PAINT_VALUE]
             ELSE NoPaint
    /\ Forget
    /\ UNCHANGED <<pc, r0, ptr, masked>>

\* The program pops one word: the stack shrinks, the word stays in RAM.
Pop ==
    /\ pc = "idle"
    /\ sp < stack_start
    /\ sp' = sp + 4
    /\ hw' = IF hw.valid THEN hw ELSE NoPaint
    /\ UNCHANGED <<mem, pc, r0, ptr, masked>>
    /\ Forget

\* The program stores to a word of a live frame (at or above sp).
Store(a, v) ==
    /\ pc = "idle"
    /\ a >= sp
    /\ mem' = [mem EXCEPT ![a] = v]
    /\ hw' = IF hw.valid
             THEN [hw EXCEPT !.hazard = hw.hazard \/ v = STACK_PAINT_VALUE]
             ELSE NoPaint
    /\ Forget
    /\ UNCHANGED <<sp, pc, r0, ptr, masked>>

\* An out-of-order write: a store below sp, into the unused part of the stack.
Poke(a, v) ==
    /\ pc = "idle"
    /\ a < sp
    /\ mem' = [mem EXCEPT ![a] = v]
    /\ hw' = IF hw.valid \/ hw.poked THEN PaintedThenPoked ELSE NoPaint
    /\ Forget
    /\ UNCHANGED <<sp, pc, r0, ptr, masked>>

\* An interrupt service routine preempts the running call, pushes n words v
\* below sp and pops them again: sp is restored, the words stay in RAM.
ISR(n, v) ==
    /\ pc \in {"paint", "scan"}
    /\ ~masked
    /\ sp - 4 * n >= LowAddr
    /\ mem' = [a \in Addrs |-> IF a >= sp - 4 * n /\ a < sp THEN v ELSE mem[a]]
    /\ dirty' = TRUE
    /\ hw' = IF hw.valid
             THEN [hw EXCEPT !.low = Min(hw.low, sp - 4 * n),
                             !.hazard = hw.hazard \/ v = STACK_PAINT_VALUE]
             ELSE NoPaint
    /\ lost' = IF pc = "paint"
               THEN LET written == {a \in Addrs : a >= sp - 4 * n /\ a < sp /\ a >= stack_end}
                    IN  (lost \ written) \cup
                        (IF v # STACK_PAINT_VALUE
                         THEN {a \in written : a < r0}
                         ELSE {})
               ELSE lost
    /\ UNCHANGED <<sp, pc, r0, ptr, masked, last, res, prev, mem0, trace>>

\* ------------------------------------------------------------- the calls
\* Entry of a call: the bookkeeping of the call that begins.
Enter(m) ==
    /\ masked' = m
    /\ prev' = IF dirty THEN "none" ELSE last
    /\ last' = "none"
    /\ res' = 0
    /\ mem0' = mem
    /\ dirty' = FALSE
    /\ trace' = <<>>
    /\ lost' = {}

\* repaint_stack() is called: in("r0") stack().end.
RepaintStart(m) ==
    /\ pc = "idle"
    /\ pc' = "paint"
    /\ r0' = stack_end
    /\ Enter(m)
    /\ hw' = NoPaint
    /\ UNCHANGED <<mem, sp, ptr>>

\* A paint loop that leaves one word early.
PaintExits_early(s, r) == s <= r + 4

\* A paint loop that leaves through "blo" (lower) instead of "bls" (lower or same).
PaintExits_blo(s, r) == s < r

\* The paint loop leaves through "bls 1f" when sp <= r0 (unsigned).
PaintExits(s, r) == s <= r

\* A store that flips a word between painted and not painted instead of painting it.
PaintStore_flip(m, r) ==
    [m EXCEPT ![r] = IF m[r] = STACK_PAINT_VALUE THEN DEADBEEF ELSE STACK_PAINT_VALUE]

\* RAM after "stmia r0!, {r1}": the paint value stored at the address in r0.
PaintStore(m, r) == [m EXCEPT ![r] = STACK_PAINT_VALUE]

\* A store without write-back ("stmia r0, {r1}"): r0 stays where it is.
PaintAdvance_stuck(r) == r

\* A write-back that skips a word (two registers' worth, as for "stmia r0!, {r1, r2}").
PaintAdvance_two(r) == r + 8

\* The write-back of "stmia r0!, {r1}": r0 moves up by one word.
PaintAdvance(r) == r + 4

\* One iteration of the paint loop: cmp sp, r0; bls 1f; stmia r0!, {r1}; b 0b.
RepaintStep ==
    /\ pc = "paint"
    /\ IF PaintExits(sp, r0)
       THEN /\ pc' = "idle"
            /\ last' = "repaint_stack"
            /\ r0' = stack_end
            /\ masked' = FALSE
            /\ hw' = IF dirty
                     THEN NoPaint
                     ELSE [low    |-> sp,
                           hazard |-> \E a \in Addrs :
                                         a >= sp /\ mem[a] = STACK_PAINT_VALUE,
                           valid  |-> TRUE,
                           poked  |-> FALSE]
            /\ UNCHANGED <<mem, trace>>
       ELSE /\ mem' = PaintStore(mem, r0)
            /\ r0' = PaintAdvance(r0)
            /\ trace' = Append(trace, r0)
            /\ UNCHANGED <<pc, last, masked, hw>>
    /\ UNCHANGED <<sp, ptr, res, prev, mem0, dirty, lost>>

\* stack_painted() is called: ptr = inout(reg) stack().end.
StackPaintedStart(m) ==
    /\ pc = "idle"
    /\ pc' = "scan"
    /\ ptr' = stack_end
    /\ Enter(m)
    /\ UNCHANGED <<mem, sp, r0, hw>>

\* The scan loop leaves through "bls 1f" when sp <= ptr (unsigned).
ScanExits(s, p) == s <= p

\* A scan loop that leaves through "beq" instead of "bne".
ScanStops_beq(w) == w = STACK_PAINT_VALUE

\* The scan loop leaves through "bne 1f" when the loaded word is not the paint.
ScanStops(w) == w # STACK_PAINT_VALUE

\* A result counted in words (offset_from) instead of bytes (byte_offset_from).
ScanResult_words(p) == (p - stack_end) \div 4

\* res.byte_offset_from_unsigned(stack().end) as u32
ScanResult(p) == p - stack_end

\* One iteration of the scan loop:
\* cmp sp, ptr; bls 1f; ldr value, [ptr]; cmp value, paint; bne 1f; add ptr, #4; b 0b.
StackPaintedStep ==
    /\ pc = "scan"
    /\ IF ScanExits(sp, ptr)
       THEN /\ pc' = "idle"
            /\ last' = "stack_painted"
            /\ res' = ScanResult(ptr)
            /\ ptr' = stack_end
            /\ masked' = FALSE
            /\ UNCHANGED trace
       ELSE /\ trace' = Append(trace, ptr)
            /\ IF ScanStops(mem[ptr])
               THEN /\ pc' = "idle"
                    /\ last' = "stack_painted"
                    /\ res' = ScanResult(ptr)
                    /\ ptr' = stack_end
                    /\ masked' = FALSE
               ELSE /\ ptr' = ptr + 4
                    /\ UNCHANGED <<pc, last, res, masked>>
    /\ UNCHANGED <<mem, sp, r0, prev, mem0, dirty, hw, lost>>

\* A call that runs as one step and returns value v after the loads in t.
Return(name, v, t) ==
    /\ pc = "idle"
    /\ prev' = IF dirty THEN "none" ELSE last
    /\ last' = name
    /\ res' = v
    /\ mem0' = mem
    /\ dirty' = FALSE
    /\ trace' = t
    /\ lost' = {}
    /\ UNCHANGED <<mem, sp, pc, r0, ptr, masked, hw>>

\* unsafe stack_painted_binary()
StackPaintedBinary ==
    Return("stack_painted_binary",
           stack_painted_binary(mem, sp),
           BinaryProbes(mem, sp))

\* stack_size()
StackSize == Return("stack_size", stack_size, <<>>)

\* current_stack_in_use()
CurrentStackInUse == Return("current_stack_in_use", current_stack_in_use(sp), <<>>)

\* current_stack_free()
CurrentStackFree == Return("current_stack_free", current_stack_free(sp), <<>>)

Next ==
    \/ \E v \in Words : Push(v)
    \/ Pop
    \/ \E a \in Addrs, v \in Words : Store(a, v)
    \/ \E a \in Addrs, v \in Words : Poke(a, v)
    \/ \E n \in 1 .. MaxIsrWords, v \in Words : ISR(n, v)
    \/ \E m \in BOOLEAN : RepaintStart(m)
    \/ RepaintStep
    \/ \E m \in BOOLEAN : StackPaintedStart(m)
    \/ StackPaintedStep
    \/ StackPaintedBinary
    \/ StackSize
    \/ CurrentStackInUse
    \/ CurrentStackFree

Spec == Init /\ [][Next]_vars

\* The processor keeps executing the loop it is in: an ISR returns to it.
SpecFair == Spec /\ WF_vars(RepaintStep) /\ WF_vars(StackPaintedStep)

\* The two loops alone, entered with any RAM content and at any stack pointer
\* the program can have reached, and the ISRs that preempt them.
InitLoops ==
    /\ mem \in [Addrs -> Words]
    /\ sp \in {LowAddr + 4 * i : i \in 0 .. (BelowWords + StackWords)}
    /\ pc = "idle"
    /\ r0 = stack_end
    /\ ptr = stack_end
    /\ masked = FALSE
    /\ last = "none"
    /\ res = 0
    /\ prev = "none"
    /\ mem0 = mem
    /\ dirty = FALSE
    /\ trace = <<>>
    /\ hw = NoPaint
    /\ lost = {}

NextLoops ==
    \/ \E n \in 1 .. MaxIsrWords, v \in Words : ISR(n, v)
    \/ \E m \in BOOLEAN : RepaintStart(m)
    \/ RepaintStep
    \/ \E m \in BOOLEAN : StackPaintedStart(m)
    \/ StackPaintedStep

SpecLoops ==
    /\ InitLoops /\ [][NextLoops]_vars
    /\ WF_vars(RepaintStep) /\ WF_vars(StackPaintedStep)

\* ------------------------------------------------------------ type checks
TypeOK ==
    /\ mem \in [Addrs -> Words]
    /\ sp \in {LowAddr + 4 * i : i \in 0 .. (BelowWords + StackWords)}
    /\ pc \in {"idle", "paint", "scan"}
    /\ r0 \in stack_end .. stack_start
    /\ ptr \in stack_end .. stack_start
    /\ masked \in BOOLEAN
    /\ dirty \in BOOLEAN
    /\ res \in 0 .. (stack_start - LowAddr)

\* ================================================================ claims
InBounds == stack_end <= sp /\ sp <= stack_start

\* The stack addresses below a, and those from a up.
StackAddrs == {a \in Addrs : a >= stack_end}

\* ---------------------------------------------------------------------
\* C1. Paint coverage: after repaint_stack() ran uninterrupted at a stack
\* pointer sp0 in [bottom, top], every word at bottom <= a < sp0 holds the
\* paint value and every word at sp0 <= a < top holds what it held before.
C1_PaintCoverage ==
    (last = "repaint_stack" /\ ~dirty /\ InBounds) =>
        \A a \in StackAddrs :
            /\ a < sp => mem[a] = STACK_PAINT_VALUE
            /\ a >= sp => mem[a] = mem0[a]

\* A paint that returned with sp inside the stack, painted a word that did not
\* hold the paint value and left a live word that does not hold it.
C1_Witness ==
    /\ last = "repaint_stack" /\ ~dirty
    /\ stack_end < sp /\ sp < stack_start
    /\ \E a \in StackAddrs : a < sp /\ mem0[a] # STACK_PAINT_VALUE
    /\ \E a \in StackAddrs : a >= sp /\ mem[a] # STACK_PAINT_VALUE

\* ---------------------------------------------------------------------
\* The number of leading words of the stack that lie below s and hold the
\* paint value in m.
SentinelPrefix(m, s) ==
    CHOOSE k \in 0 .. StackWords :
        /\ \A i \in 0 .. (k - 1) :
              stack_end + 4 * i < s /\ m[stack_end + 4 * i] = STACK_PAINT_VALUE
        /\ \/ k = StackWords
           \/ stack_end + 4 * k >= s
           \/ m[stack_end + 4 * k] # STACK_PAINT_VALUE

\* C2. Linear scan faithfulness: an uninterrupted stack_painted() at sp in
\* [bottom, top] returns 4*k, k the largest number such that the first k
\* words from bottom all lie below sp and hold the paint value.
C2_ScanFaithful ==
    (last = "stack_painted" /\ ~dirty /\ InBounds) =>
        res = 4 * SentinelPrefix(mem, sp)

\* A scan that stopped at a word that is not painted, after at least one
\* painted word and before sp.
C2_Witness ==
    /\ last = "stack_painted" /\ ~dirty /\ InBounds
    /\ res > 0 /\ stack_end + res < sp
    /\ mem[stack_end + res] # STACK_PAINT_VALUE

Contiguous(m) ==
    \E k \in 0 .. StackWords :
        \A i \in 0 .. (StackWords - 1) :
            (m[stack_end + 4 * i] # STACK_PAINT_VALUE) <=> (i >= k)

\* C4. Under contiguity and with sp in [bottom, top], stack_painted_binary()
\* returns what an uninterrupted stack_painted() returns at the same sp.
C4_BinaryAgrees ==
    (last = "stack_painted" /\ ~dirty /\ InBounds /\ Contiguous(mem)) =>
        stack_painted_binary(mem, sp) = res

\* A linear scan of at least three free words that met the boundary between
\* the painted and the written words strictly inside them.
C4_Witness ==
    /\ last = "stack_painted" /\ ~dirty /\ InBounds /\ Contiguous(mem)
    /\ sp - stack_end >= 12
    /\ 0 < res /\ res < sp - stack_end

\* ---------------------------------------------------------------------
\* C5. Accounting identity: with sp in [bottom, top], current_stack_in_use()
\* is top - sp, and in use plus free is stack_size(), which is top - bottom.
C5_Accounting ==
    InBounds =>
        /\ last = "current_stack_in_use" => res = stack_start - sp
        /\ last = "current_stack_free" =>
              /\ res >= 0
              /\ current_stack_in_use(sp) + res = stack_size
        /\ last = "stack_size" => res = stack_start - stack_end
        /\ current_stack_in_use(sp) + current_stack_free(sp) = stack_start - stack_end

\* current_stack_free() returned with the stack partly in use.
C5_Witness ==
    /\ last = "current_stack_free"
    /\ stack_end < sp /\ sp < stack_start
    /\ res = sp - stack_end

\* ---------------------------------------------------------------------
\* C6 as stated. Saturation: whenever sp <= bottom, current_stack_free() is 0
\* and current_stack_in_use() is stack_size().
C6_Original ==
    sp <= stack_end =>
        /\ last = "current_stack_free" => res = 0
        /\ last = "current_stack_in_use" => res = stack_size

\* C6 as amended. Whenever sp <= bottom, current_stack_free() is 0 and
\* current_stack_in_use() is top - sp, which is at least stack_size() and is
\* stack_size() only when sp = bottom: in use does not saturate.
C6_Saturation ==
    sp <= stack_end =>
        /\ last = "current_stack_free" => res = 0
        /\ last = "current_stack_in_use" =>
              /\ res = stack_start - sp
              /\ res >= stack_size
              /\ (res = stack_size) <=> (sp = stack_end)

\* current_stack_free() returned with sp strictly below the stack.
C6_Witness ==
    /\ last = "current_stack_free"
    /\ sp < stack_end
    /\ current_stack_in_use(sp) > stack_size

\* ---------------------------------------------------------------------
\* C7. Whenever sp <= bottom, repaint_stack() stores nothing (RAM inside and
\* outside the stack is as it was) and both scans return 0.
C7_OverflowHarmless ==
    sp <= stack_end =>
        /\ last = "repaint_stack" =>
              /\ trace = <<>>
              /\ ~dirty => mem = mem0
        /\ last = "stack_painted" => res = 0 /\ trace = <<>>
        /\ last = "stack_painted_binary" => res = 0 /\ trace = <<>>
        /\ stack_painted_binary(mem, sp) = 0

\* A paint that returned with sp below the stack whose lowest word is not
\* painted.
C7_Witness ==
    /\ last = "repaint_stack" /\ ~dirty
    /\ sp < stack_end
    /\ mem[stack_end] # STACK_PAINT_VALUE
    /\ mem[LowAddr] # STACK_PAINT_VALUE

\* ---------------------------------------------------------------------
\* C8. An uninterrupted repaint_stack() followed at once by an uninterrupted
\* stack_painted() at the same sp in [bottom, top] returns sp - bottom, which
\* is current_stack_free().
C8_PaintThenScan ==
    (last = "stack_painted" /\ prev = "repaint_stack" /\ ~dirty /\ InBounds) =>
        /\ res = sp - stack_end
        /\ res = current_stack_free(sp)

\* Such a scan with sp strictly inside the stack and a live word that is not
\* painted.
C8_Witness ==
    /\ last = "stack_painted" /\ prev = "repaint_stack" /\ ~dirty
    /\ stack_end < sp /\ sp < stack_start
    /\ mem[sp] # STACK_PAINT_VALUE
    /\ res = sp - stack_end

\* ---------------------------------------------------------------------
\* C9. For any RAM content and sp in [bottom, top], stack_painted() and
\* stack_painted_binary() return at most current_stack_free().
C9_ScansBounded ==
    InBounds =>
        /\ last = "stack_painted" => res <= current_stack_free(sp)
        /\ last = "stack_painted_binary" => res <= current_stack_free(sp)

\* A binary scan that returned all of the free space while the live word at
\* sp holds the paint value too.
C9_Witness ==
    /\ last = "stack_painted_binary"
    /\ stack_end < sp /\ sp < stack_start
    /\ mem[sp] = STACK_PAINT_VALUE
    /\ res = current_stack_free(sp)

\* ---------------------------------------------------------------------
\* C10. Idempotence: a second uninterrupted repaint_stack() right after an
\* uninterrupted one, at the same sp, leaves all of RAM as the first left it.
C10_PaintIdempotent ==
    (last = "repaint_stack" /\ prev = "repaint_stack" /\ ~dirty) => mem = mem0

\* A second paint in a row that stored to at least two words.
C10_Witness ==
    /\ last = "repaint_stack" /\ prev = "repaint_stack" /\ ~dirty
    /\ Len(trace) >= 2

\* ---------------------------------------------------------------------
\* The calls that return a byte count.
ByteCounts == {"stack_size", "current_stack_in_use", "current_stack_free",
               "stack_painted", "stack_painted_binary"}

C11_WitnessBelow ==
    /\ last = "current_stack_in_use"
    /\ sp < stack_end

\* ---------------------------------------------------------------------
\* C12. ISR interference with paint: when repaint_stack() returns at sp in
\* [bottom, top], a word of [bottom, sp) does not hold the paint value iff an
\* ISR that preempted the paint last wrote it with a word that is not the
\* paint value while its address was below the paint cursor; words the ISR
\* wrote at or above the cursor are painted over.  During a paint run with
\* interrupts masked no ISR runs and no word is lost.
C12_IsrInterference ==
    /\ (last = "repaint_stack" /\ InBounds) =>
          \A a \in StackAddrs :
              a < sp => ((mem[a] # STACK_PAINT_VALUE) <=> (a \in lost))
    /\ (pc = "paint" /\ masked) => (~dirty /\ lost = {})
    /\ (last = "repaint_stack" /\ ~dirty) => lost = {}

\* A paint that returned with a word of [bottom, sp) lost to an ISR: paint
\* coverage failed.
C12_Witness ==
    /\ last = "repaint_stack" /\ dirty /\ InBounds
    /\ \E a \in StackAddrs :
          a < sp /\ a \in lost /\ mem[a] # STACK_PAINT_VALUE
    /\ \E a \in StackAddrs :
          a < sp /\ a \notin lost /\ mem0[a] # STACK_PAINT_VALUE

\* ---------------------------------------------------------------------
\* Every address of the sequence t lies in [bottom, s).
Confined(t, s) ==
    \A i \in 1 .. Len(t) : stack_end <= t[i] /\ t[i] < s

\* C13. Scans are read-only and confined: stack_painted() and
\* stack_painted_binary() leave RAM as it was at their entry and load only
\* from addresses a with bottom <= a < sp; stack_size(),
\* current_stack_in_use() and current_stack_free() load from and store to no
\* word at all.
C13_ScansConfined ==
    /\ (pc = "scan" \/ last = "stack_painted") =>
          /\ Confined(trace, sp)
          /\ ~dirty => mem = mem0
    /\ last = "stack_painted_binary" =>
          /\ Confined(trace, sp)
          /\ mem = mem0
    /\ last \in {"stack_size", "current_stack_in_use", "current_stack_free"} =>
          /\ trace = <<>>
          /\ mem = mem0

\* A binary scan below a live word that holds the paint value, which loaded
\* at least two words, the highest of them the last word below sp.
C13_Witness ==
    /\ last = "stack_painted_binary"
    /\ stack_end < sp /\ sp < stack_start
    /\ mem[sp] = STACK_PAINT_VALUE
    /\ Len(trace) >= 2
    /\ \E i \in 1 .. Len(trace) : trace[i] = sp - 4

\* ---------------------------------------------------------------------
\* The largest number of iterations a loop over [bottom, s) makes.
MaxIterations(s) == Max(0, s - stack_end) \div 4

\* The loops count their iterations in the cursor, which never passes sp
\* (so it cannot wrap around the end of the address space).
C14_Bounded ==
    /\ pc = "paint" =>
          /\ r0 = stack_end + 4 * Len(trace)
          /\ r0 <= Max(sp, stack_end)
    /\ pc = "scan" =>
          /\ ptr = stack_end + 4 * Len(trace)
          /\ ptr <= Max(sp, stack_end)
    /\ (pc \in {"paint", "scan"} \/ last \in {"repaint_stack", "stack_painted"}) =>
          Len(trace) <= MaxIterations(sp)

\* C14. Termination: the loops of repaint_stack() and stack_painted() make
\* at most max(0, sp - bottom)/4 iterations, the cursor never passes sp, and
\* both calls return, also when ISRs that restore sp preempt them.
C14_Termination ==
    /\ []C14_Bounded
    /\ (pc = "paint") ~> (pc = "idle")
    /\ (pc = "scan") ~> (pc = "idle")

\* A paint that an ISR preempted and that returned after the largest number
\* of iterations, more than one.
C14_Witness ==
    /\ last = "repaint_stack" /\ dirty
    /\ Len(trace) >= 2
    /\ Len(trace) = MaxIterations(sp)

\* ---------------------------------------------------------------------
\* The number of words of the slice of stack_painted_binary() at sp, and the
\* index of the word its search loads first.
SliceLen == current_stack_free(sp) \div 4
FirstProbe == SliceLen \div 2

\* RAM holds an out-of-order write the binary search steps over: the word
\* it loads first holds the paint value and a word below that one does not.
OutOfOrder ==
    /\ SliceLen >= 2
    /\ SliceWord(mem, FirstProbe) = STACK_PAINT_VALUE
    /\ \E i \in 0 .. (FirstProbe - 1) : SliceWord(mem, i) # STACK_PAINT_VALUE

\* C15. Out-of-order writes are not detected by the binary scan: in every
\* state where a word below sp still holds the paint value at the middle of
\* the free words and a lower word does not, stack_painted() returns the
\* offset of the lowest word that is not painted and stack_painted_binary()
\* returns a larger value, past the middle word.
C15_OutOfOrderUndetected ==
    (last = "stack_painted" /\ ~dirty /\ InBounds /\ OutOfOrder) =>
        /\ SliceWord(mem, res \div 4) # STACK_PAINT_VALUE
        /\ \A i \in 0 .. (res \div 4 - 1) : SliceWord(mem, i) = STACK_PAINT_VALUE
        /\ res < 4 * FirstProbe
        /\ stack_painted_binary(mem, sp) >= 4 * (FirstProbe + 1)

\* Such a state reached by an uninterrupted paint followed by out-of-order
\* writes only: the two scans differ.
C15_Witness ==
    /\ last = "stack_painted" /\ ~dirty /\ InBounds /\ OutOfOrder
    /\ hw.poked
    /\ res > 0
    /\ stack_painted_binary(mem, sp) # res

\* ---------------------------------------------------------------------
\* The sequence t is bottom, bottom + 4, bottom + 8, ...: increasing by one
\* word from bottom, each address once.
Ascending(t) ==
    \A i \in 1 .. Len(t) : t[i] = stack_end + 4 * (i - 1)

\* C16. Within one call repaint_stack() stores to bottom, bottom + 4, ... in
\* increasing order, each word at most once, and stack_painted() loads
\* bottom, bottom + 4, ... in increasing order, each at most once, and stops
\* at the first word that does not hold the paint value or at sp.
C16_LowToHigh ==
    /\ (pc = "paint" \/ last = "repaint_stack") => Ascending(trace)
    /\ (pc = "scan" \/ last = "stack_painted") => Ascending(trace)
    /\ (last = "stack_painted" /\ ~dirty) =>
          /\ \A i \in 1 .. (Len(trace) - 1) : mem[trace[i]] = STACK_PAINT_VALUE
          /\ \/ stack_end + 4 * Len(trace) >= sp
             \/ /\ Len(trace) > 0
                /\ mem[trace[Len(trace)]] # STACK_PAINT_VALUE

\* A scan that loaded at least three words and stopped at a word that does
\* not hold the paint value, below sp.
C16_Witness ==
    /\ last = "stack_painted" /\ ~dirty
    /\ Len(trace) >= 3
    /\ trace[Len(trace)] + 4 < sp
    /\ mem[trace[Len(trace)]] # STACK_PAINT_VALUE

\* ---------------------------------------------------------------------
\* The index r is the length of the slice at sp or the index of a word of it
\* that does not hold the paint value.
EndOrUnpainted(r) ==
    /\ 0 <= r /\ r <= SliceLen
    /\ r = SliceLen \/ SliceWord(mem, r) # STACK_PAINT_VALUE

\* C17. The binary scan never under-reports: for any RAM content and sp in
\* [bottom, top], stack_painted_binary() is at least what an uninterrupted
\* stack_painted() returns, with the partition point of core's current search
\* and with the left/right bisection alike; the index is the length of the
\* slice or the index of a word that does not hold the paint value.
C17_BinaryNeverUnder ==
    InBounds =>
        /\ EndOrUnpainted(partition_point(mem, SliceLen).index)
        /\ EndOrUnpainted(bisect(mem, 0, SliceLen))
        /\ (last = "stack_painted" /\ ~dirty) =>
              /\ stack_painted_binary(mem, sp) >= res
              /\ 4 * bisect(mem, 0, SliceLen) >= res

\* A scan after which the binary scan returns strictly more than the linear
\* scan returned: the words that are not painted are not a suffix.
C17_Witness ==
    /\ last = "stack_painted" /\ ~dirty /\ InBounds
    /\ stack_painted_binary(mem, sp) > res
    /\ 4 * bisect(mem, 0, SliceLen) > res
    /\ stack_painted_binary(mem, sp) < current_stack_free(sp)

====
